---- MODULE Spec2Model ----
(***************************************************************************)
(* The image <-> DNA coder of team0001/coder.py.                           *)
(*                                                                         *)
(* A Coder object holds four fields: address and payload (symbol counts),  *)
(* supplement (number of padding bits) and message_number (frame count).   *)
(* image_to_dna turns a byte buffer into a list of nucleotide strings and  *)
(* sets supplement and message_number; dna_to_image reads those fields     *)
(* back and rebuilds a byte buffer from a list of strings.                 *)
(*                                                                         *)
(* Bits are 0/1, a bit vector is a sequence of bits, a byte buffer is a    *)
(* sequence over 0..255, a DNA sequence is a sequence of one-character     *)
(* strings.  numpy rows and columns are 0-based, sequences here 1-based.   *)
(***************************************************************************)
EXTENDS Integers, Sequences, FiniteSets, TLC

\* self.payload of Coder.__init__.
payload == 128

\* The address width Coder.__init__ declares.
DeclaredAddress == 12

\* A second, narrow address width, so that the "address length is too short"
\* branch of image_to_dna is reached with a handful of frames.
NarrowAddress == 1

\* Images of up to MaxFrames frames are encoded.
MaxFrames == 5

\* Every permutation of the sequence list is read back for lists of up to
\* PermFrames sequences; longer lists are read back reversed and rotated.
PermFrames == 3

\* image_to_dna is called up to MaxCalls times on one Coder.
MaxCalls == 2

AddressWidths == {NarrowAddress, DeclaredAddress}

VARIABLES
    address,          \* self.address
    supplement,       \* self.supplement
    message_number,   \* self.message_number
    calls,            \* number of image_to_dna calls made on this Coder
    image,            \* the buffer given to the last image_to_dna call
    encStatus,        \* how the last image_to_dna call ended
    dna,              \* the list the last image_to_dna call returned
    before,           \* supplement and message_number before that call
    good,             \* input and result of the last call that returned
    reads,            \* the list given to the last dna_to_image call
    decStatus,        \* how that dna_to_image call ended
    table,            \* its sorted_binary_messages
    output            \* the buffer it wrote

vars == <<address, supplement, message_number, calls, image, encStatus, dna,
          before, good, reads, decStatus, table, output>>

------------------------------------------------------------------------------
(* numpy helpers *)

Min(a, b) == IF a < b THEN a ELSE b

SetMax(S) == CHOOSE m \in S : \A x \in S : x <= m

zeros(n) == [i \in 1..n |-> 0]

\* unpackbits of a row of uint8: most significant bit first.
unpackbits(bytes) ==
    [i \in 1..(8 * Len(bytes)) |->
        (bytes[((i - 1) \div 8) + 1] \div (2 ^ (7 - ((i - 1) % 8)))) % 2]

\* packbits of rows of 8 bits: bits.reshape(len(bits) // 8, 8), one byte per row.
packbits(bits) ==
    [j \in 1..(Len(bits) \div 8) |->
        LET o == 8 * (j - 1)
        IN  128 * bits[o + 1] + 64 * bits[o + 2] + 32 * bits[o + 3]
            + 16 * bits[o + 4] + 8 * bits[o + 5] + 4 * bits[o + 6]
            + 2 * bits[o + 7] + bits[o + 8]]

------------------------------------------------------------------------------
(* image_to_dna *)

\* The padding of lines 58-62: the new value of self.supplement.  The field
\* is assigned only when the bit length is not a multiple of payload * 2.
NewSupplement(len, old) ==
    IF len % (payload * 2) # 0
    THEN payload * 2 - (len % (payload * 2))
    ELSE old

\* The padded bit vector of line 62.
PadBits(bits) ==
    IF Len(bits) % (payload * 2) # 0
    THEN bits \o zeros(payload * 2 - (Len(bits) % (payload * 2)))
    ELSE bits

\* bits.reshape(len(bits) // (128 * 2), (128 * 2)), line 63.
Reshape(bits) ==
    [r \in 1..(Len(bits) \div (128 * 2)) |->
        [c \in 1..(128 * 2) |-> bits[(128 * 2) * (r - 1) + c]]]

\* ceil(log2(n) / log2(256)) for n >= 1, line 68: the least b with 256^b >= n.
byte_number(n) ==
    CHOOSE b \in 0..n : 256 ^ b >= n /\ \A a \in 0..(b - 1) : 256 ^ a < n

\* The byte matrix of lines 69-73: row i holds i, most significant byte first,
\* in bn bytes.
mould(n, bn) ==
    [r \in 1..n |-> [c \in 1..bn |-> ((r - 1) \div (256 ^ (bn - c))) % 256]]

\* Lines 74-75: each row of mould unpacked to bn * 8 bits.
index_matrix(n, bn) ==
    LET m == mould(n, bn)
    IN  [r \in 1..n |-> unpackbits(m[r])]

\* Line 76: the 0-based columns whose sum over all rows is 0.
unused_locations(im, width) ==
    {c \in 0..(width - 1) : \A r \in 1..Len(im) : im[r][c + 1] = 0}

\* start_location taken from the first unused column instead of the last.
start_location_first(unused) ==
    IF Cardinality(unused) > 0
    THEN (CHOOSE m \in unused : \A x \in unused : m <= x) + 1
    ELSE 0

\* Line 77.
start_location(unused) ==
    IF Cardinality(unused) > 0 THEN SetMax(unused) + 1 ELSE 0

\* Line 78: index_matrix[:, start_location:].
TrimIndex(im, width) ==
    LET start == start_location(unused_locations(im, width))
    IN  [r \in 1..Len(im) |-> SubSeq(im[r], start + 1, width)]

\* Line 82: the configured address is too short for the trimmed index.
AddressTooShort(addr, width) == addr * 2 < width

\* Lines 79-81: left-pad the trimmed index with zeros up to addr * 2 bits.
ExpandIndex(im, addr, width) ==
    IF addr * 2 > width
    THEN [r \in 1..Len(im) |-> zeros(addr * 2 - width) \o im[r]]
    ELSE im

\* Lines 90-93: the nucleotide of a digit.
Nucleotide(d) ==
    CASE d = 0 -> "A"
      [] d = 1 -> "C"
      [] d = 2 -> "G"
      [] d = 3 -> "T"

\* digit_set built from neighbouring bits of the row.
digit_set_pairs(row, addr) ==
    [j \in 1..(addr + payload) |-> 2 * row[2 * j - 1] + row[2 * j]]

\* Lines 88-89, for one row: digit j is twice bit j of the first half of the
\* row plus bit j of the second half.
digit_set(row, addr) ==
    [j \in 1..(addr + payload) |-> 2 * row[j] + row[j + addr + payload]]

\* Lines 88-96, for one row: the DNA sequence of a binary message.
Sequence(row, addr) ==
    LET digits == digit_set(row, addr)
    IN  [j \in 1..Len(digits) |-> Nucleotide(digits[j])]

\* Lines 54-100: what image_to_dna does with the byte buffer B on a Coder
\* whose fields are addr and oldSupplement.  A record of the status of the
\* call, the fields it leaves and the list it returns.
\* With no frame at all, log2(0) is -inf and its cast to int is negative on
\* every build, so zeros() of line 69 raises after line 64 has run.
Encode(B, addr, oldSupplement) ==
    LET raw == unpackbits(B)
        s == NewSupplement(Len(raw), oldSupplement)
        binary_messages == Reshape(PadBits(raw))
        n == Len(binary_messages)
        bn == byte_number(n)
        trimmed == TrimIndex(index_matrix(n, bn), bn * 8)
        width == IF n = 0 THEN 0 ELSE Len(trimmed[1])
        index == ExpandIndex(trimmed, addr, width)
    IN  IF n = 0
        THEN [status |-> "negative_dimensions", supplement |-> s,
              message_number |-> n, dna |-> <<>>]
        ELSE IF AddressTooShort(addr, width)
        THEN [status |-> "address_too_short", supplement |-> s,
              message_number |-> n, dna |-> <<>>]
        ELSE [status |-> "ok", supplement |-> s, message_number |-> n,
              dna |-> [r \in 1..n |->
                          Sequence(index[r] \o binary_messages[r], addr)]]

------------------------------------------------------------------------------
(* dna_to_image *)

\* Line 122.
mapping ==
    ("A" :> <<0, 0>>) @@ ("C" :> <<0, 1>>) @@ ("G" :> <<1, 0>>) @@ ("T" :> <<1, 1>>)

\* A slice one nucleotide short.
SliceShort(seq, addr) == SubSeq(seq, 1, Min(Len(seq), addr + payload - 1))

\* dna_sequence[:self.address + self.payload], line 124.
Slice(seq, addr) == SubSeq(seq, 1, Min(Len(seq), addr + payload))

\* Lines 123-127: the exception the nucleotide loop raises on sequence i of
\* the list (1-based), or "none".  Each nucleotide is looked up in mapping
\* (KeyError for a character it does not hold) and then written to row i - 1
\* of binary_messages, which has mn rows (IndexError past them).
RowError(seq, i, addr, mn) ==
    LET s == Slice(seq, addr)
    IN  IF Len(s) = 0 THEN "none"
        ELSE IF i > mn
        THEN (IF s[1] \in DOMAIN mapping THEN "IndexError" ELSE "KeyError")
        ELSE IF \E p \in 1..Len(s) : s[p] \notin DOMAIN mapping
        THEN "KeyError"
        ELSE "none"

\* The exception of the first sequence of the list that raises one.
FillError(list, addr, mn) ==
    LET bad == {i \in 1..Len(list) : RowError(list[i], i, addr, mn) # "none"}
    IN  IF bad = {} THEN "none"
        ELSE LET i == CHOOSE k \in bad : \A x \in bad : k <= x
             IN  RowError(list[i], i, addr, mn)

\* Lines 124-127: the row of binary_messages a sequence fills, upper bits in
\* the first half, lower bits in the second; columns it does not reach stay 0.
DecodeRow(seq, addr) ==
    LET s == Slice(seq, addr)
        half == addr + payload
    IN  [c \in 1..(2 * half) |->
            IF c <= half
            THEN (IF c <= Len(s) THEN mapping[s[c]][1] ELSE 0)
            ELSE (IF c - half <= Len(s) THEN mapping[s[c - half]][2] ELSE 0)]

\* Lines 121-130: binary_messages, mn rows, row i from sequence i of the
\* list and all zero where the list has no sequence.
binary_rows(list, addr, mn) ==
    [r \in 1..mn |->
        IF r <= Len(list) THEN DecodeRow(list[r], addr)
        ELSE zeros(2 * (addr + payload))]

\* Lines 143-145: the bytes of mould made up to an integer, least significant
\* byte last.  The product of a uint8 byte and 256 ** index is taken in a type
\* wide enough to hold it (the numpy 1.x promotion the code was written for)
\* and the sum is kept in uint64, which no address of the model overflows.
RECURSIVE MakeUp(_, _)
MakeUp(bytes, index) ==
    IF index >= Len(bytes) THEN 0
    ELSE bytes[Len(bytes) - index] * (256 ^ index) + MakeUp(bytes, index + 1)

\* Lines 134-145: the order of a row, from its first addr * 2 bits, padded on
\* the left to whole bytes.
Order(row, addr) ==
    LET bits == SubSeq(row, 1, addr * 2)
        bn == (addr * 2 + 7) \div 8
        template == IF (addr * 2) % 8 # 0
                    THEN zeros(8 * bn - addr * 2) \o bits
                    ELSE bits
    IN  MakeUp(packbits(template), 0)

\* Place without the sort: row index goes to place index.
PlaceInReadOrder(sorted, index, order, message) ==
    [sorted EXCEPT ![index + 1] = message]

\* Lines 148-149: row index of binary_messages (0-based), of the given order,
\* goes to its place in sorted_binary_messages when the order is in range.
Place(sorted, index, order, message) ==
    IF order < Len(sorted) THEN [sorted EXCEPT ![order + 1] = message]
    ELSE sorted

\* Lines 146-149: the loop over all rows of binary_messages, in row order.
RECURSIVE Fill(_, _, _, _)
Fill(sorted, rows, addr, index) ==
    IF index >= Len(rows) THEN sorted
    ELSE Fill(Place(sorted, index, Order(rows[index + 1], addr),
                    SubSeq(rows[index + 1], addr * 2 + 1, Len(rows[index + 1]))),
              rows, addr, index + 1)

\* sorted_binary_messages.reshape(-1), line 153.
Flatten(sorted) ==
    [i \in 1..(2 * payload * Len(sorted)) |->
        sorted[((i - 1) \div (2 * payload)) + 1][((i - 1) % (2 * payload)) + 1]]

\* bits[:-self.supplement], line 154: a slice that stops at index -supp.
\* For supp = 0 that is index 0.
DropSupplement(bits, supp) ==
    LET stop == IF supp = 0 THEN 0
                ELSE IF supp > Len(bits) THEN 0
                ELSE Len(bits) - supp
    IN  SubSeq(bits, 1, stop)

\* Lines 119-161: what dna_to_image does with the list on a Coder whose
\* fields are addr, supp and mn.  A record of the status of the call, the
\* sorted_binary_messages it builds and the buffer it writes.
Decode(list, addr, supp, mn) ==
    LET err == FillError(list, addr, mn)
        sorted == Fill([r \in 1..mn |-> zeros(2 * payload)],
                       binary_rows(list, addr, mn), addr, 0)
        bits == DropSupplement(Flatten(sorted), supp)
    IN  IF err # "none"
        THEN [status |-> err, table |-> <<>>, output |-> <<>>]
        ELSE IF mn = 0
        THEN [status |-> "IndexError", table |-> <<>>, output |-> <<>>]
        ELSE IF Len(bits) % 8 # 0
        THEN [status |-> "ValueError", table |-> sorted, output |-> <<>>]
        ELSE [status |-> "done", table |-> sorted, output |-> packbits(bits)]

------------------------------------------------------------------------------
(* The images that are encoded and the lists that are read back *)

\* A byte buffer of n bytes whose frames all differ; its first byte is 0xFF.
Image(n) == [i \in 1..n |-> (255 + 37 * (i - 1) + 3 * ((i - 1) \div 32)) % 256]

\* Whole frames (no padding) and frames with a single byte in the last one.
ImageLengths ==
    {32 * k : k \in 0..MaxFrames} \cup {32 * (k - 1) + 1 : k \in 1..MaxFrames}

Images == {Image(n) : n \in ImageLengths}

\* The value v written big-endian in width bits.
AddressBits(v, width) == [c \in 1..width |-> (v \div (2 ^ (width - c))) % 2]

\* The sequence a read carries when its payload is that of seq and its address is v.
Readdress(seq, v, addr) ==
    LET row == DecodeRow(seq, addr)
    IN  Sequence(AddressBits(v, addr * 2) \o SubSeq(row, addr * 2 + 1, Len(row)), addr)

RemoveAt(list, k) == SubSeq(list, 1, k - 1) \o SubSeq(list, k + 1, Len(list))

\* The list in another order.
Shuffles(list) ==
    LET n == Len(list)
    IN  IF n <= PermFrames
        THEN {[i \in 1..n |-> list[p[i]]] : p \in Permutations(1..n)}
        ELSE {list, [i \in 1..n |-> list[n + 1 - i]]}
             \cup {[i \in 1..n |-> list[((i + k - 1) % n) + 1]] : k \in 1..(n - 1)}

\* The list with one sequence lost.
Losses(list) == {RemoveAt(list, k) : k \in 1..Len(list)}

\* The list with one sequence read twice.
Repeats(list) == {Append(list, list[k]) : k \in 1..Len(list)}

\* The list with sequence j read under the address of sequence k.
Collisions(list, addr) ==
    {[list EXCEPT ![j] = Readdress(list[j], k - 1, addr)] :
        j \in 1..Len(list), k \in 1..Len(list)}

\* The list with sequence j read under an address no frame has: in place of
\* sequence j, after the whole list, or in place of sequence j with another
\* sequence lost.
Spurious(list, addr) ==
    LET past == {w \in {Len(list), (2 ^ (addr * 2)) - 1} : Len(list) <= w}
        swapped == {[list EXCEPT ![j] = Readdress(list[j], v, addr)] :
                       j \in 1..Len(list), v \in past}
    IN  swapped
        \cup {Append(list, Readdress(list[j], v, addr)) :
                  j \in 1..Len(list), v \in past}
        \cup {RemoveAt(l, k) : l \in swapped, k \in 1..Len(list)}

\* The list with one character of sequence j unreadable, or one appended to it.
Garbled(list, addr) ==
    {[list EXCEPT ![j] = [list[j] EXCEPT ![p] = "N"]] :
        j \in 1..Len(list), p \in {1, addr, addr + 1, addr + payload}}
    \cup {[list EXCEPT ![j] = Append(list[j], "N")] : j \in 1..Len(list)}

Channel(list, addr) ==
    Shuffles(list) \cup Losses(list) \cup Repeats(list) \cup Collisions(list, addr)
    \cup Spurious(list, addr) \cup Garbled(list, addr)

\* The lists dna_to_image is called with: what the channel makes of the
\* sequences of the first image, the sequences themselves of a later one,
\* and after a call that raised those of the last call that returned.
Reads ==
    IF encStatus = "ok"
    THEN (IF calls = 1 THEN Channel(dna, address) ELSE {dna})
    ELSE {good.dna}

------------------------------------------------------------------------------
(* The Coder *)

\* Coder.__init__, lines 32-33.
Init ==
    /\ address \in AddressWidths
    /\ supplement = 0
    /\ message_number = 0
    /\ calls = 0
    /\ image = <<>>
    /\ encStatus = "none"
    /\ dna = <<>>
    /\ before = [supplement |-> 0, message_number |-> 0]
    /\ good = [image |-> <<>>, dna |-> <<>>]
    /\ reads = <<>>
    /\ decStatus = "none"
    /\ table = <<>>
    /\ output = <<>>

\* Coder.image_to_dna on the buffer B.  dna_to_image assigns no field of the
\* Coder, so a call made after it reaches the state the same call reaches
\* before it; a run is followed up to its first dna_to_image.
ImageToDna(B) ==
    LET e == Encode(B, address, supplement)
    IN  /\ calls < MaxCalls
        /\ decStatus = "none"
        /\ calls' = calls + 1
        /\ image' = B
        /\ before' = [supplement |-> supplement, message_number |-> message_number]
        /\ supplement' = e.supplement
        /\ message_number' = e.message_number
        /\ encStatus' = e.status
        /\ dna' = e.dna
        /\ good' = IF e.status = "ok" THEN [image |-> B, dna |-> e.dna] ELSE good
        /\ reads' = <<>>
        /\ decStatus' = "none"
        /\ table' = <<>>
        /\ output' = <<>>
        /\ UNCHANGED address

\* Coder.dna_to_image on the list.
DnaToImage(list) ==
    LET d == Decode(list, address, supplement, message_number)
    IN  /\ encStatus # "none"
        /\ decStatus = "none"
        /\ reads' = list
        /\ decStatus' = d.status
        /\ table' = d.table
        /\ output' = d.output
        /\ UNCHANGED <<address, supplement, message_number, calls, image,
                       encStatus, dna, before, good>>

Next ==
    \/ \E B \in Images : ImageToDna(B)
    \/ \E list \in Reads : DnaToImage(list)

Spec == Init /\ [][Next]_vars

------------------------------------------------------------------------------
(* What the properties speak of *)

Range(list) == {list[i] : i \in 1..Len(list)}

\* Number of frames of a buffer: its bit length over 2 * payload, rounded up.
FrameCount(B) == (8 * Len(B) + 2 * payload - 1) \div (2 * payload)

\* ceil(log2(n)) for n >= 1.
CeilLog2(n) == CHOOSE b \in 0..n : 2 ^ b >= n /\ \A a \in 0..(b - 1) : 2 ^ a < n

\* Frame i (1-based) of a bit vector, padded with zeros.
FrameOf(bits, i) ==
    [c \in 1..(2 * payload) |->
        IF 2 * payload * (i - 1) + c <= Len(bits)
        THEN bits[2 * payload * (i - 1) + c] ELSE 0]

\* The payload frame i (1-based) of a buffer.
Frame(B, i) == FrameOf(unpackbits(B), i)

\* The nucleotides of a row whose bits are mapped two neighbours at a time.
InPairs(row) ==
    [j \in 1..(Len(row) \div 2) |-> Nucleotide(2 * row[2 * j - 1] + row[2 * j])]

\* The nucleotides of a row whose bit j is mapped with bit j of its second half.
InHalves(row) ==
    [j \in 1..(Len(row) \div 2) |->
        Nucleotide(2 * row[j] + row[j + (Len(row) \div 2)])]

\* The integer a bit vector holds, most significant bit first.
RECURSIVE BitsValue(_)
BitsValue(bits) ==
    IF Len(bits) = 0 THEN 0
    ELSE 2 * BitsValue(SubSeq(bits, 1, Len(bits) - 1)) + bits[Len(bits)]

\* A sequence of address + payload nucleotides.
WellFormed(seq) ==
    /\ Len(seq) = address + payload
    /\ \A p \in 1..Len(seq) : seq[p] \in {"A", "C", "G", "T"}

\* Address and payload a well-formed sequence carries.
ReadAddress(seq) == BitsValue(SubSeq(DecodeRow(seq, address), 1, 2 * address))

ReadPayload(seq) ==
    SubSeq(DecodeRow(seq, address), 2 * address + 1, 2 * (address + payload))

\* The payload of the last sequence of the list that carries address v, all
\* zero when no sequence does.
LastWrite(list, v) ==
    LET at == {i \in 1..Len(list) : ReadAddress(list[i]) = v}
    IN  IF at = {} THEN zeros(2 * payload) ELSE ReadPayload(list[SetMax(at)])

\* A buffer with the bytes of frame k (1-based) set to zero.
ZeroFrame(bytes, k) ==
    [i \in 1..Len(bytes) |->
        IF ((i - 1) \div (payload \div 4)) + 1 = k THEN 0 ELSE bytes[i]]

\* dna_to_image has been called on sequences of the image encoded last.
Decoded == encStatus = "ok" /\ decStatus # "none"

------------------------------------------------------------------------------
(* Properties *)

\* C1: round trip.  image_to_dna returns a list for every buffer, the empty
\* one included, and dna_to_image on that list, unmodified, writes back
\* exactly the bytes of the buffer.
RoundTrip ==
    /\ (encStatus # "none" /\ Len(image) = 0) => encStatus = "ok"
    /\ (Decoded /\ reads = dna) => (decStatus = "done" /\ output = image)

\* C2: order independence.  dna_to_image on a permutation of the list that
\* image_to_dna returned completes and writes the same bytes as dna_to_image
\* on the list in its original order.
OrderIndependence ==
    (Decoded /\ Len(reads) = Len(dna) /\ Range(reads) = Range(dna)) =>
        LET original == Decode(dna, address, supplement, message_number)
        IN  /\ decStatus = "done"
            /\ original.status = "done"
            /\ output = original.output

\* A three-frame image read back in another order, and rebuilt.
OrderIndependenceWitness ==
    /\ Decoded
    /\ Len(dna) >= 3
    /\ Len(reads) = Len(dna) /\ Range(reads) = Range(dna)
    /\ reads[1] = dna[3]
    /\ decStatus = "done"
    /\ Len(output) > 2 * (payload \div 4)
    /\ output = image

\* C3: partial loss.  With the sequence of frame k removed from the list,
\* dna_to_image writes what it writes for the full list except that the
\* bytes of frame k are zero.
PartialLoss ==
    \A k \in 1..Len(dna) :
        (Decoded /\ reads = RemoveAt(dna, k)) =>
            /\ decStatus = "done"
            /\ output = ZeroFrame(Decode(dna, address, supplement,
                                         message_number).output, k)

\* C4: padding bound.  After every image_to_dna call the supplement is the
\* number of bits that pad the bit length of the input of that call to a
\* multiple of 2 * payload, and is below 2 * payload.
PaddingBound ==
    encStatus # "none" =>
        /\ 0 <= supplement
        /\ supplement < 2 * payload
        /\ supplement =
              (2 * payload - ((8 * Len(image)) % (2 * payload))) % (2 * payload)

\* C5: address sufficiency.  For an input of N >= 1 frames image_to_dna
\* returns iff 2 * address >= ceil(log2(N)) and otherwise raises "address
\* length is too short"; when it returns, the first 2 * address bits of
\* sequence i hold i, big-endian.
AddressSufficiency ==
    (encStatus # "none" /\ FrameCount(image) >= 1) =>
        /\ (encStatus = "ok") <=> (2 * address >= CeilLog2(FrameCount(image)))
        /\ encStatus # "ok" => encStatus = "address_too_short"
        /\ encStatus = "ok" =>
              /\ Len(dna) = FrameCount(image)
              /\ \A i \in 1..Len(dna) :
                    /\ WellFormed(dna[i])
                    /\ SubSeq(DecodeRow(dna[i], address), 1, 2 * address)
                          = AddressBits(i - 1, 2 * address)

\* An image with more frames than the address can number was refused.
AddressSufficiencyWitness ==
    /\ encStatus = "address_too_short"
    /\ 2 * address < CeilLog2(FrameCount(image))
    /\ FrameCount(image) = (2 ^ (2 * address)) + 1

\* C6, as claimed: nucleotide j of sequence i maps bits 2j-1 and 2j of the
\* address of frame i followed by its payload.
WireLayoutPairs ==
    encStatus = "ok" =>
        \A i \in 1..Len(dna) :
            dna[i] = InPairs(AddressBits(i - 1, 2 * address) \o Frame(image, i))

\* C6, amended: nucleotide j of sequence i maps bit j and bit
\* j + address + payload of the address of frame i followed by its payload;
\* the one-byte image 0xFF gives one sequence, G at nucleotides
\* 2 * address + 1 to 2 * address + 8 and A elsewhere.
WireLayoutHalves ==
    encStatus = "ok" =>
        /\ Len(dna) = FrameCount(image)
        /\ \A i \in 1..Len(dna) :
              dna[i] = InHalves(AddressBits(i - 1, 2 * address) \o Frame(image, i))
        /\ image = <<255>> =>
              dna = << [j \in 1..(address + payload) |->
                          IF 2 * address + 1 <= j /\ j <= 2 * address + 8
                          THEN "G" ELSE "A"] >>

\* The one-byte image 0xFF was encoded.
WireLayoutWitness ==
    /\ encStatus = "ok"
    /\ image = <<255>>
    /\ Len(dna) = 1
    /\ dna[1][2 * address + 1] = "G"

\* C7: duplicates.  dna_to_image completes on every list of well-formed
\* sequences, whatever its length, and each frame is the payload of the last
\* sequence of the list that carries its address.
DuplicatesAccepted ==
    (Decoded /\ \A i \in 1..Len(reads) : WellFormed(reads[i])) =>
        /\ decStatus = "done"
        /\ \A f \in 1..message_number : table[f] = LastWrite(reads, f - 1)

\* C8, as claimed: a character outside A, C, G, T anywhere in a sequence of
\* the list makes dna_to_image raise, and nothing is written.
UnknownSymbolAnywhere ==
    (decStatus # "none"
       /\ \E i \in 1..Len(reads) : \E p \in 1..Len(reads[i]) :
             reads[i][p] \notin {"A", "C", "G", "T"}) =>
        (decStatus # "done" /\ output = <<>>)

\* C8, amended: a character outside A, C, G, T among the first
\* address + payload characters of a sequence of the list makes dna_to_image
\* raise, and nothing is written.
UnknownSymbolInSlice ==
    (decStatus # "none"
       /\ \E i \in 1..Len(reads) :
             \E p \in 1..Min(Len(reads[i]), address + payload) :
                reads[i][p] \notin {"A", "C", "G", "T"}) =>
        (decStatus \in {"KeyError", "IndexError"} /\ output = <<>> /\ table = <<>>)

\* The last nucleotide of a sequence was unreadable and the call raised.
UnknownSymbolWitness ==
    /\ decStatus = "KeyError"
    /\ \E i \in 1..Len(reads) :
          /\ Len(reads[i]) = address + payload
          /\ reads[i][address + payload] = "N"

\* C9: out-of-range address.  On a list of well-formed sequences, some of
\* them carrying an address that is no frame's, dna_to_image raises nothing,
\* those sequences write no frame, and each frame is the payload of the last
\* sequence that carries its address, all zero when none does.
OutOfRangeDropped ==
    (/\ Decoded
     /\ \A i \in 1..Len(reads) : WellFormed(reads[i])
     /\ \E i \in 1..Len(reads) : ReadAddress(reads[i]) >= message_number) =>
        /\ decStatus = "done"
        /\ \A f \in 1..message_number : table[f] = LastWrite(reads, f - 1)

\* C10: a failed encode leaves the Codec State untouched.  When image_to_dna
\* raises "address length is too short", supplement and message_number are
\* what they were before the call, and dna_to_image on the sequences of the
\* last call that returned rebuilds the input of that call.
FailedEncodeKeepsState ==
    encStatus = "address_too_short" =>
        /\ supplement = before.supplement
        /\ message_number = before.message_number
        /\ (decStatus # "none" /\ Len(good.dna) > 0 /\ reads = good.dna) =>
              (decStatus = "done" /\ output = good.image)

====
